---- MODULE Spec2Model ----
(***************************************************************************)
(* Verification model of the duchess macro crate:                          *)
(*   - the class cache emitted by SpannedClassInfo::cached_class           *)
(*     (a static once_cell::sync::OnceCell filled by get_or_try_init),     *)
(*   - the declaration parser of argument.rs,                              *)
(*   - the Signature translator and the constructor generator of           *)
(*     codegen.rs.                                                         *)
(***************************************************************************)
EXTENDS Integers, Sequences, FiniteSets, TLC

VARIABLES
    \* ---- class cache (generated fn cached_class) ----
    pc,          \* per caller: position inside cached_class
    cell,        \* the value slot of `static CLASS`: <<>> or <<v>>
    queue,       \* the state word of the OnceCell
    ret,         \* per caller: what its last call returned
    lookups,     \* number of times the initialising closure was started
    nextRef,     \* id of the next GlobalRef the JVM hands out
    failures,    \* number of lookups that failed
    waited,      \* per caller: blocked on an in-flight lookup in this call
    ownLookup,   \* per caller: ran the closure itself in this call
    calls,       \* per caller: number of calls made
    \* ---- declaration parser (argument.rs) ----
    toks,        \* the token sequence held by the Parser
    cursor,      \* index of the Parser's next token
    startPos,    \* the cursor before the last unit parser ran
    lastOp,      \* the unit parser that ran last
    result,      \* what it returned
    nOps,        \* number of unit parsers run
    \* ---- Signature translator (codegen.rs) ----
    declared,    \* the owning class's generics
    sig,         \* the Signature under construction
    sigPre,      \* the Signature before the last translation
    lastTy,      \* the type translated last
    lastPos,     \* "input" or "output": the method that translated it
    lastRes,     \* what the translation returned
    nCalls,      \* number of translations run on this Signature
    \* ---- constructor generator (codegen.rs) ----
    info,        \* the ClassInfo of a SpannedClassInfo
    lastCtor,    \* index of the constructor generated last
    ctorRes,     \* what SpannedClassInfo::constructor returned for it
    output       \* what SpannedClassInfo::into_tokens returned

cacheVars == <<pc, cell, queue, ret, lookups, nextRef, failures, waited,
               ownLookup, calls>>
parseVars == <<toks, cursor, startPos, lastOp, result, nOps>>
sigVars == <<declared, sig, sigPre, lastTy, lastPos, lastRes, nCalls>>
genVars == <<info, lastCtor, ctorRes, output>>

vars == <<cacheVars, parseVars, sigVars, genVars>>

----------------------------------------------------------------------------
(* Bounds *)

NThreads == 2
MaxCalls == 2
MaxLen == 3
MaxTail == 1
MaxOps == 2
MaxDepth == 2
MaxTranslations == 2
MaxArgs == 2
MaxConstructors == 2

----------------------------------------------------------------------------
(* Class cache: codegen.rs 62-77.  The generated function is               *)
(*   static CLASS: OnceCell<GlobalRef> = OnceCell::new();                  *)
(*   CLASS.get_or_try_init(|| { let class = env.find_class(..)?;           *)
(*                              env.new_global_ref(class) })               *)
(* get_or_try_init first tries get(); otherwise it enters the cell's       *)
(* initialisation loop: a caller that finds the cell INCOMPLETE marks it   *)
(* RUNNING and runs its closure, a caller that finds it RUNNING blocks     *)
(* until the state changes and then looks again; the runner stores the     *)
(* value and marks the cell COMPLETE on Ok, and puts the cell back to      *)
(* INCOMPLETE on Err, returning the Err to its own caller.                 *)

Threads == 1..NThreads

NoRet == <<"none">>
Ok(v) == <<"Ok", v>>
Err(e) == <<"Err", e>>
GlobalRef(n) == <<"ref", n>>

InLookup(t) == pc[t] \in {"find_class", "new_global_ref"}

InitCache ==
    /\ pc = [t \in Threads |-> "idle"]
    /\ cell = <<>>
    /\ queue = "INCOMPLETE"
    /\ ret = [t \in Threads |-> NoRet]
    /\ lookups = 0
    /\ nextRef = 1
    /\ failures = 0
    /\ waited = [t \in Threads |-> FALSE]
    /\ ownLookup = [t \in Threads |-> FALSE]
    /\ calls = [t \in Threads |-> 0]

\* a caller enters cached_class(jvm)
Call(t) ==
    /\ pc[t] = "idle"
    /\ calls[t] < MaxCalls
    /\ pc' = [pc EXCEPT ![t] = "get"]
    /\ calls' = [calls EXCEPT ![t] = @ + 1]
    /\ ret' = [ret EXCEPT ![t] = NoRet]
    /\ waited' = [waited EXCEPT ![t] = FALSE]
    /\ ownLookup' = [ownLookup EXCEPT ![t] = FALSE]
    /\ UNCHANGED <<cell, queue, lookups, nextRef, failures>>
    /\ UNCHANGED <<parseVars, sigVars, genVars>>

\* fast path of get_or_try_init: `if let Some(value) = self.get()`
Get(t) ==
    /\ pc[t] = "get"
    /\ IF queue = "COMPLETE"
       THEN /\ pc' = [pc EXCEPT ![t] = "idle"]
            /\ ret' = [ret EXCEPT ![t] = Ok(cell[1])]
       ELSE /\ pc' = [pc EXCEPT ![t] = "load"]
            /\ UNCHANGED ret
    /\ UNCHANGED <<cell, queue, lookups, nextRef, failures, waited,
                   ownLookup, calls>>
    /\ UNCHANGED <<parseVars, sigVars, genVars>>

\* a mutant of Load: a caller that finds a lookup RUNNING starts its own
LoadNoWait(t) ==
    /\ pc[t] = "load"
    /\ IF queue = "COMPLETE"
       THEN /\ pc' = [pc EXCEPT ![t] = "idle"]
            /\ ret' = [ret EXCEPT ![t] = Ok(cell[1])]
            /\ UNCHANGED <<queue, lookups, ownLookup, waited>>
       ELSE /\ queue' = "RUNNING"
            /\ pc' = [pc EXCEPT ![t] = "find_class"]
            /\ lookups' = lookups + 1
            /\ ownLookup' = [ownLookup EXCEPT ![t] = TRUE]
            /\ UNCHANGED <<ret, waited>>
    /\ UNCHANGED <<cell, nextRef, failures, calls>>
    /\ UNCHANGED <<parseVars, sigVars, genVars>>

\* one turn of the initialisation loop of the cell
Load(t) ==
    /\ pc[t] = "load"
    /\ CASE queue = "COMPLETE" ->
              /\ pc' = [pc EXCEPT ![t] = "idle"]
              /\ ret' = [ret EXCEPT ![t] = Ok(cell[1])]
              /\ UNCHANGED <<queue, lookups, ownLookup, waited>>
         [] queue = "INCOMPLETE" ->
              /\ queue' = "RUNNING"
              /\ pc' = [pc EXCEPT ![t] = "find_class"]
              /\ lookups' = lookups + 1
              /\ ownLookup' = [ownLookup EXCEPT ![t] = TRUE]
              /\ UNCHANGED <<ret, waited>>
         [] queue = "RUNNING" ->
              /\ pc' = [pc EXCEPT ![t] = "wait"]
              /\ waited' = [waited EXCEPT ![t] = TRUE]
              /\ UNCHANGED <<queue, lookups, ownLookup, ret>>
    /\ UNCHANGED <<cell, nextRef, failures, calls>>
    /\ UNCHANGED <<parseVars, sigVars, genVars>>

\* a blocked caller is woken when the runner leaves the RUNNING state
Wake(t) ==
    /\ pc[t] = "wait"
    /\ queue # "RUNNING"
    /\ pc' = [pc EXCEPT ![t] = "load"]
    /\ UNCHANGED <<cell, queue, ret, lookups, nextRef, failures, waited,
                   ownLookup, calls>>
    /\ UNCHANGED <<parseVars, sigVars, genVars>>

\* the closure returned Err(e): the cell goes back to INCOMPLETE, nothing
\* is stored, the runner's call returns the Err
LookupFailed(t, e) ==
    /\ queue' = "INCOMPLETE"
    /\ pc' = [pc EXCEPT ![t] = "idle"]
    /\ ret' = [ret EXCEPT ![t] = Err(e)]
    /\ failures' = failures + 1
    /\ UNCHANGED <<cell, lookups, nextRef, waited, ownLookup, calls>>
    /\ UNCHANGED <<parseVars, sigVars, genVars>>

\* `let class = env.find_class(name)?` succeeds
FindClassOk(t) ==
    /\ pc[t] = "find_class"
    /\ pc' = [pc EXCEPT ![t] = "new_global_ref"]
    /\ UNCHANGED <<cell, queue, ret, lookups, nextRef, failures, waited,
                   ownLookup, calls>>
    /\ UNCHANGED <<parseVars, sigVars, genVars>>

\* `env.find_class(name)?` fails
FindClassErr(t) ==
    /\ pc[t] = "find_class"
    /\ LookupFailed(t, "find_class")

\* `env.new_global_ref(class)` succeeds: the value is stored, the cell is
\* COMPLETE, the runner returns a reference to the stored value
NewGlobalRefOk(t) ==
    /\ pc[t] = "new_global_ref"
    /\ cell' = <<GlobalRef(nextRef)>>
    /\ nextRef' = nextRef + 1
    /\ queue' = "COMPLETE"
    /\ pc' = [pc EXCEPT ![t] = "idle"]
    /\ ret' = [ret EXCEPT ![t] = Ok(GlobalRef(nextRef))]
    /\ UNCHANGED <<lookups, failures, waited, ownLookup, calls>>
    /\ UNCHANGED <<parseVars, sigVars, genVars>>

\* a mutant of NewGlobalRefErr: the failure is stored as the result
NewGlobalRefErrCached(t) ==
    /\ pc[t] = "new_global_ref"
    /\ cell' = <<Err("new_global_ref")>>
    /\ queue' = "COMPLETE"
    /\ pc' = [pc EXCEPT ![t] = "idle"]
    /\ ret' = [ret EXCEPT ![t] = Err("new_global_ref")]
    /\ failures' = failures + 1
    /\ UNCHANGED <<lookups, nextRef, waited, ownLookup, calls>>
    /\ UNCHANGED <<parseVars, sigVars, genVars>>

\* `env.new_global_ref(class)` fails
NewGlobalRefErr(t) ==
    /\ pc[t] = "new_global_ref"
    /\ LookupFailed(t, "new_global_ref")

NextCache ==
    \/ \E t \in Threads : Call(t)
    \/ \E t \in Threads : Get(t)
    \/ \E t \in Threads : Load(t)
    \/ \E t \in Threads : Wake(t)
    \/ \E t \in Threads : FindClassOk(t)
    \/ \E t \in Threads : FindClassErr(t)
    \/ \E t \in Threads : NewGlobalRefOk(t)
    \/ \E t \in Threads : NewGlobalRefErr(t)

----------------------------------------------------------------------------
(* Declaration parser: argument.rs.  A token is an identifier or a         *)
(* punctuation character; a Parser is a token sequence and the index of    *)
(* its next token.  The primitives of Parser and Parse::parse_many live    *)
(* in parse.rs.                                                            *)

Ident(s) == <<"ident", s>>
Punct(c) == <<"punct", c>>

Parser(ts, i) == [toks |-> ts, pos |-> i]

Advance(p) == [p EXCEPT !.pos = @ + 1]
Some(v, p) == [some |-> TRUE, val |-> v, p |-> p]
None(p) == [some |-> FALSE, val |-> "", p |-> p]

AtToken(p) == p.pos <= Len(p.toks)

\* Parser::eat_keyword: consumes the next token iff it is the identifier kw
eat_keyword(p, kw) ==
    IF AtToken(p) /\ p.toks[p.pos] = Ident(kw)
    THEN Some(kw, Advance(p)) ELSE None(p)

\* Parser::eat_ident: consumes the next token iff it is an identifier
eat_ident(p) ==
    IF AtToken(p) /\ p.toks[p.pos][1] = "ident"
    THEN Some(p.toks[p.pos][2], Advance(p)) ELSE None(p)

\* Parser::eat_punct: consumes the next token iff it is the punctuation c
eat_punct(p, c) ==
    IF AtToken(p) /\ p.toks[p.pos] = Punct(c)
    THEN Some(c, Advance(p)) ELSE None(p)

\* Parser::last_span: the span (here: index) of the token consumed last
last_span(p) == p.pos - 1

\* SpanError; a backquote of a message is written as a quote
SpanError(span, message) == [span |-> span, message |-> message]
NoError == SpanError(0, "")

\* Parser::error: an error at the token the parser is looking at
error(p, message) == SpanError(p.pos, message)

\* Result<Option<Self>, SpanError>
OkSome(p, v) == [kind |-> "match", p |-> p, value |-> v, err |-> NoError]
OkNone(p) == [kind |-> "nomatch", p |-> p, value |-> <<>>, err |-> NoError]
ErrSpan(p, e) == [kind |-> "error", p |-> p, value |-> <<>>, err |-> e]

\* the Vec built by parse_many: v in front of what the rest of the loop
\* collected, or the error of the rest
Prepend(v, rest) ==
    IF rest.kind = "error" THEN rest
    ELSE OkSome(rest.p, <<v>> \o rest.value)

RECURSIVE JavaPath_segments(_, _, _)
RECURSIVE JavaPath_dot(_, _, _, _)
RECURSIVE JavaPath_next(_, _, _)

\* `let Some(next) = p.eat_ident() else { return Err(..) }; push_str`
JavaPath_next(next, text, span) ==
    IF ~next.some
    THEN ErrSpan(next.p, SpanError(last_span(next.p),
                                   "expected identifier after '.'"))
    ELSE JavaPath_segments(next.p, text \o next.val, span)

\* `while let Some(()) = p.eat_punct('.')`, dot being what eat_punct gave
JavaPath_dot(dot, p, text, span) ==
    IF ~dot.some
    THEN OkSome(p, [text |-> text, span |-> span])
    ELSE JavaPath_next(eat_ident(dot.p), text, span)

\* the loop of JavaPath::parse
JavaPath_segments(p, text, span) ==
    JavaPath_dot(eat_punct(p, "."), p, text, span)

\* `let Some(mut text) = p.eat_ident() else { return Ok(None) }`
JavaPath_first(first) ==
    IF ~first.some
    THEN OkNone(first.p)
    ELSE JavaPath_segments(first.p, first.val, last_span(first.p))

\* <JavaPath as Parse>::parse
JavaPath_parse(p) == JavaPath_first(eat_ident(p))

\* `let Some(()) = p.eat_punct('}') else ..` and the Ok(Some(JavaClass))
JavaClass_close(close, class_name) ==
    IF ~close.some
    THEN ErrSpan(close.p, error(close.p, "expected '}' after class methods"))
    ELSE OkSome(close.p, [class_name |-> class_name, members |-> <<>>])

\* `let Some(()) = p.eat_punct('*') else ..`
JavaClass_star(star, class_name) ==
    IF ~star.some
    THEN ErrSpan(star.p, error(star.p, "expected '*'"))
    ELSE JavaClass_close(eat_punct(star.p, "}"), class_name)

\* a mutant of JavaClass_open: a missing `{` is reported as no-match
JavaClass_open_soft(open, class_name) ==
    IF ~open.some
    THEN OkNone(open.p)
    ELSE JavaClass_star(eat_punct(open.p, "*"), class_name)

\* `let Some(()) = p.eat_punct('{') else ..`
JavaClass_open(open, class_name) ==
    IF ~open.some
    THEN ErrSpan(open.p, error(open.p, "expected '{' after class name"))
    ELSE JavaClass_star(eat_punct(open.p, "*"), class_name)

\* `let Some(class_name) = p.eat_ident() else ..`
JavaClass_name(class_name) ==
    IF ~class_name.some
    THEN ErrSpan(class_name.p, error(class_name.p, "expected class name"))
    ELSE JavaClass_open(eat_punct(class_name.p, "{"), class_name.val)

\* `let Some(()) = p.eat_keyword("class") else { return Ok(None) }`
JavaClass_keyword(kw) ==
    IF ~kw.some THEN OkNone(kw.p) ELSE JavaClass_name(eat_ident(kw.p))

\* <JavaClass as Parse>::parse; members: None is <<>>
JavaClass_parse(p) == JavaClass_keyword(eat_keyword(p, "class"))

RECURSIVE JavaClass_parse_many(_)
RECURSIVE JavaClass_collect(_)

\* Parse::parse_many for JavaClass, r being what the unit parser returned:
\* no-match ends the list, an error ends the parse
JavaClass_collect(r) ==
    CASE r.kind = "error" -> r
      [] r.kind = "nomatch" -> OkSome(r.p, <<>>)
      [] r.kind = "match" -> Prepend(r.value, JavaClass_parse_many(r.p))

\* Parse::parse_many for JavaClass
JavaClass_parse_many(p) == JavaClass_collect(JavaClass_parse(p))

\* `let classes = JavaClass::parse_many(p)?` and the Ok(Some(JavaPackage))
JavaPackage_classes(classes, package_name) ==
    IF classes.kind = "error" THEN classes
    ELSE OkSome(classes.p, [package_name |-> package_name,
                            classes |-> classes.value])

\* `let Some(()) = p.eat_punct(';') else ..`
JavaPackage_semi(semi, package_name) ==
    IF ~semi.some
    THEN ErrSpan(semi.p, error(semi.p, "expected ';' after package name"))
    ELSE JavaPackage_classes(JavaClass_parse_many(semi.p), package_name)

\* `let Some(package_name) = JavaPath::parse(p)? else ..`
JavaPackage_name(package_name) ==
    CASE package_name.kind = "error" -> package_name
      [] package_name.kind = "nomatch" ->
            ErrSpan(package_name.p,
                    error(package_name.p, "expected package name"))
      [] package_name.kind = "match" ->
            JavaPackage_semi(eat_punct(package_name.p, ";"),
                             package_name.value)

\* `let Some(()) = p.eat_keyword("package") else { return Ok(None) }`
JavaPackage_keyword(kw) ==
    IF ~kw.some THEN OkNone(kw.p) ELSE JavaPackage_name(JavaPath_parse(kw.p))

\* <JavaPackage as Parse>::parse
JavaPackage_parse(p) == JavaPackage_keyword(eat_keyword(p, "package"))

RECURSIVE JavaPackage_parse_many(_)
RECURSIVE JavaPackage_collect(_)

\* Parse::parse_many for JavaPackage, r being what the unit parser returned
JavaPackage_collect(r) ==
    CASE r.kind = "error" -> r
      [] r.kind = "nomatch" -> OkSome(r.p, <<>>)
      [] r.kind = "match" -> Prepend(r.value, JavaPackage_parse_many(r.p))

\* Parse::parse_many for JavaPackage
JavaPackage_parse_many(p) == JavaPackage_collect(JavaPackage_parse(p))

\* `let packages = JavaPackage::parse_many(p)?; Ok(Some(..))`
DuchessDeclaration_packages(packages) ==
    IF packages.kind = "error" THEN packages
    ELSE OkSome(packages.p, [packages |-> packages.value])

\* <DuchessDeclaration as Parse>::parse
DuchessDeclaration_parse(p) ==
    DuchessDeclaration_packages(JavaPackage_parse_many(p))

\* the inputs: every token sequence of up to MaxLen tokens, and every
\* piece of a two-class declaration followed by up to MaxTail tokens
Tokens ==
    {Ident("package"), Ident("class"), Ident("a"),
     Punct(";"), Punct("."), Punct("{"), Punct("*"), Punct("}")}

SeqsUpTo(S, n) == UNION {[1..k -> S] : k \in 0..n}

Scenario1 ==
    <<Ident("package"), Ident("a"), Punct("."), Ident("b"), Punct(";"),
      Ident("class"), Ident("Foo"), Punct("{"), Punct("*"), Punct("}")>>

BaseDecl ==
    Scenario1 \o <<Ident("class"), Ident("a"), Punct("{"), Punct("*"),
                   Punct("}")>>

Inputs ==
    SeqsUpTo(Tokens, MaxLen)
    \cup {SubSeq(BaseDecl, i, j) \o tail :
            i \in 1..Len(BaseDecl), j \in 0..Len(BaseDecl),
            tail \in SeqsUpTo(Tokens, MaxTail)}
    \cup {Scenario1 \o Scenario1}

InitParse ==
    /\ toks \in Inputs
    /\ cursor = 1
    /\ startPos = 1
    /\ lastOp = "none"
    /\ result = OkNone(Parser(toks, 1))
    /\ nOps = 0

\* the Parser is usable: no unit parser has returned a hard error
CanParse == nOps < MaxOps /\ result.kind # "error"

Ran(op, r) ==
    /\ lastOp' = op
    /\ startPos' = cursor
    /\ result' = r
    /\ cursor' = r.p.pos
    /\ nOps' = nOps + 1
    /\ UNCHANGED toks
    /\ UNCHANGED <<cacheVars, sigVars, genVars>>

ParseJavaPath ==
    CanParse /\ Ran("JavaPath", JavaPath_parse(Parser(toks, cursor)))

ParseJavaClass ==
    CanParse /\ Ran("JavaClass", JavaClass_parse(Parser(toks, cursor)))

ParseJavaPackage ==
    CanParse /\ Ran("JavaPackage", JavaPackage_parse(Parser(toks, cursor)))

ParseDuchessDeclaration ==
    CanParse /\ Ran("DuchessDeclaration",
                    DuchessDeclaration_parse(Parser(toks, cursor)))

NextParse ==
    \/ ParseJavaPath
    \/ ParseJavaClass
    \/ ParseJavaPackage
    \/ ParseDuchessDeclaration

\* the parser component at rest
IdleParse ==
    /\ toks = <<>>
    /\ cursor = 1
    /\ startPos = 1
    /\ lastOp = "none"
    /\ result = OkNone(Parser(<<>>, 1))
    /\ nOps = 0

----------------------------------------------------------------------------
(* Signature translator: codegen.rs 175-348.  An Id is a dotted name,      *)
(* kept as the sequence of its segments; an Ident is a string; a           *)
(* TokenStream is the sequence of its tokens.                              *)

Class(name, generics) == <<"Class", name, generics>>
Array(e) == <<"Array", e>>
TypeParameter(t) == <<"TypeParameter", t>>
Extends(ty) == <<"Extends", ty>>
Super(ty) == <<"Super", ty>>
Wildcard == <<"Wildcard">>
Ref(ty) == <<"Ref", ty>>
Scalar(ty) == <<"Scalar", ty>>

ScalarTypes == {"Int", "Long", "Short", "Byte", "F64", "F32", "Boolean"}

UnsupportedWildcard == "UnsupportedWildcard"

\* Result<TokenStream, UnsupportedWildcard> together with the Signature
\* the call leaves behind; "panic" is a failed assert!
SigOk(sg, ts) == [kind |-> "Ok", ts |-> ts, sig |-> sg]
SigErr(sg) == [kind |-> "Err", ts |-> <<UnsupportedWildcard>>, sig |-> sg]
SigPanic(sg) == [kind |-> "panic", ts |-> <<>>, sig |-> sg]

Contains(seq, x) == \E i \in 1..Len(seq) : seq[i] = x

\* fn java_type_parameter_ident (free function and method)
java_type_parameter_ident(t) == "J" \o t

RECURSIVE Signature_new_idents(_)
Signature_new_idents(generics) ==
    IF generics = <<>> THEN <<>>
    ELSE <<java_type_parameter_ident(Head(generics))>>
         \o Signature_new_idents(Tail(generics))

\* Signature::new
Signature_new(generics) ==
    [generics |-> Signature_new_idents(generics),
     where_bounds |-> <<>>,
     capture_generics |-> TRUE]

\* Signature::forbid_capture, first line: std::mem::replace sets the flag
\* to false (the old value v is sg.capture_generics)
forbid_capture_replace(sg) == [sg EXCEPT !.capture_generics = FALSE]

\* Signature::forbid_capture, after op returned r: the flag is restored to
\* v; a panic in op unwinds past the restore
forbid_capture_restore(v, r) ==
    IF r.kind = "panic" THEN r
    ELSE [r EXCEPT !.sig.capture_generics = v]

\* a mutant of fresh_generic: the capture flag is not consulted
fresh_generic_ungated(sg) ==
    LET i == Len(sg.generics)
        ident == "P" \o ToString(i)
    IN  SigOk([sg EXCEPT !.generics = Append(@, ident)], <<ident>>)

\* a mutant of fresh_generic: the counter does not count the generics
\* captured so far
fresh_generic_stale(sg) ==
    IF ~sg.capture_generics
    THEN SigErr(sg)
    ELSE LET ident == "P" \o ToString(0)
         IN  SigOk([sg EXCEPT !.generics = Append(@, ident)], <<ident>>)

\* Signature::fresh_generic
fresh_generic(sg) ==
    IF ~sg.capture_generics
    THEN SigErr(sg)
    ELSE LET i == Len(sg.generics)
             ident == "P" \o ToString(i)
         IN  SigOk([sg EXCEPT !.generics = Append(@, ident)], <<ident>>)

\* Signature::push_where_bound
push_where_bound(sg, t) == [sg EXCEPT !.where_bounds = Append(@, t)]

\* Signature::java_scalar_ty
java_scalar_ty(ty) ==
    CASE ty = "Int" -> <<"i32">>
      [] ty = "Long" -> <<"i64">>
      [] ty = "Short" -> <<"i16">>
      [] ty = "Byte" -> <<"i8">>
      [] ty = "F64" -> <<"f64">>
      [] ty = "F32" -> <<"f32">>
      [] ty = "Boolean" -> <<"bool">>

RECURSIVE PathTokens(_)
PathTokens(segs) ==
    IF Len(segs) = 1 THEN <<segs[1]>>
    ELSE <<segs[1], "::">> \o PathTokens(Tail(segs))

\* IdExt::to_module_name: `#(#package_idents ::)* #struct_ident`
to_module_name(name) == PathTokens(name)

RECURSIVE JoinSegments(_, _)
JoinSegments(segs, sep) ==
    IF Len(segs) = 1 THEN segs[1]
    ELSE segs[1] \o sep \o JoinSegments(Tail(segs), sep)

\* IdExt::to_jni_name: the dotted name with `/` for `.`
to_jni_name(name) == JoinSegments(name, "/")

RECURSIVE CommaSeparated(_)
\* `#(#rust_tys),*`
CommaSeparated(tss) ==
    IF tss = <<>> THEN <<>>
    ELSE IF Len(tss) = 1 THEN tss[1]
    ELSE tss[1] \o <<",">> \o CommaSeparated(Tail(tss))

RECURSIVE java_ref_ty(_, _)
RECURSIVE java_ref_tys(_, _)
RECURSIVE class_ref_ty(_, _)

\* Signature::java_ref_ty
java_ref_ty(sg, ty) ==
    CASE ty[1] = "Class" -> class_ref_ty(sg, ty)
      [] ty[1] = "Array" ->
            LET e == java_ref_ty(sg, ty[2]) IN
            IF e.kind # "Ok" THEN e
            ELSE SigOk(e.sig, <<"java", "::", "JavaArray", "<">> \o e.ts
                              \o <<">">>)
      [] ty[1] = "TypeParameter" ->
            LET ident == java_type_parameter_ident(ty[2]) IN
            IF ~Contains(sg.generics, ident) THEN SigPanic(sg)
            ELSE SigOk(sg, <<ident>>)
      [] ty[1] = "Extends" ->
            LET g == fresh_generic(sg) IN
            IF g.kind # "Ok" THEN g ELSE
            LET e == java_ref_ty(g.sig, ty[2]) IN
            IF e.kind # "Ok" THEN e
            ELSE SigOk(push_where_bound(e.sig,
                          g.ts \o <<":", "AsRef", "<">> \o e.ts \o <<">">>),
                       g.ts)
      [] ty[1] = "Super" -> fresh_generic(sg)
      [] ty[1] = "Wildcard" -> fresh_generic(sg)

\* `generics.iter().map(|t| self.java_ref_ty(t)).collect::<Result<_, _>>()`:
\* ts is the sequence of the translations; the first Err ends the iteration
java_ref_tys(sg, tys) ==
    IF tys = <<>> THEN SigOk(sg, <<>>)
    ELSE LET t == java_ref_ty(sg, Head(tys)) IN
         IF t.kind # "Ok" THEN t
         ELSE LET rest == java_ref_tys(t.sig, Tail(tys)) IN
              IF rest.kind # "Ok" THEN rest
              ELSE SigOk(rest.sig, <<t.ts>> \o rest.ts)

\* Signature::class_ref_ty
class_ref_ty(sg, ty) ==
    LET name == ty[2]
        generics == ty[3]
        rust_name == to_module_name(name)
    IN  IF Len(generics) = 0
        THEN SigOk(sg, rust_name)
        ELSE LET rust_tys == java_ref_tys(sg, generics) IN
             IF rust_tys.kind # "Ok" THEN rust_tys
             ELSE SigOk(rust_tys.sig,
                        rust_name \o <<"<">> \o CommaSeparated(rust_tys.ts)
                        \o <<">">>)

\* Signature::input_trait; the quoted `$t` is not an interpolation
input_trait(sg, ty) ==
    IF ty[1] = "Ref"
    THEN LET t == java_ref_ty(sg, ty[2]) IN
         IF t.kind # "Ok" THEN t
         ELSE SigOk(t.sig, <<"IntoJava", "<", "$", "t", ">">>)
    ELSE LET t == java_scalar_ty(ty[2]) IN
         SigOk(sg, <<"IntoScalar", "<", "$", "t", ">">>)

\* the closure of Signature::output_trait
output_trait_op(this, ty) ==
    IF ty[1] = "Ref"
    THEN LET t == java_ref_ty(this, ty[2]) IN
         IF t.kind # "Ok" THEN t
         ELSE SigOk(t.sig, <<"IntoOptLocal", "<", "$", "t", ">">>)
    ELSE LET t == java_scalar_ty(ty[2]) IN
         SigOk(this, <<"IntoScalar", "<", "$", "t", ">">>)

\* Signature::output_trait
output_trait(sg, ty) ==
    forbid_capture_restore(sg.capture_generics,
                           output_trait_op(forbid_capture_replace(sg), ty))

\* the types handed to the translator: the owning class's type parameters
\* are the only ones that occur (the assert! of java_ref_ty)
ClassX == <<"X">>
ClassArrayList == <<"java", "util", "ArrayList">>

Leaves(decl) ==
    {Wildcard, Class(ClassX, <<>>)}
    \cup {TypeParameter(decl[i]) : i \in 1..Len(decl)}

RECURSIVE RefTypes(_, _)
RefTypes(d, decl) ==
    IF d = 0 THEN Leaves(decl)
    ELSE LET sub == RefTypes(d - 1, decl) IN
         Leaves(decl)
         \cup {Array(t) : t \in sub}
         \cup {Extends(t) : t \in sub}
         \cup {Class(ClassArrayList, <<t>>) : t \in sub}
         \cup {Super(t) : t \in Leaves(decl)}
         \cup {Class(ClassArrayList, <<t, u>>) :
                  t \in Leaves(decl),
                  u \in {Wildcard, Extends(Class(ClassX, <<>>))}}

Types(d, decl) ==
    {Ref(t) : t \in RefTypes(d, decl)} \cup {Scalar(t) : t \in ScalarTypes}

DeclaredChoices == {<<>>, <<"T">>}

InitSig ==
    /\ declared \in DeclaredChoices
    /\ sig = Signature_new(declared)
    /\ sigPre = sig
    /\ lastTy = Scalar("Int")
    /\ lastPos = "none"
    /\ lastRes = SigOk(sig, <<>>)
    /\ nCalls = 0

\* the translator is usable: no assert! failed, and the return type, which
\* is translated last, has not been translated yet
CanTranslate ==
    /\ nCalls < MaxTranslations
    /\ lastRes.kind # "panic"
    /\ lastPos # "output"

Depth == IF nCalls >= MaxDepth THEN 0 ELSE MaxDepth - nCalls

Translated(pos, ty, r) ==
    /\ sigPre' = sig
    /\ lastTy' = ty
    /\ lastPos' = pos
    /\ lastRes' = r
    /\ sig' = r.sig
    /\ nCalls' = nCalls + 1
    /\ UNCHANGED declared
    /\ UNCHANGED <<cacheVars, parseVars, genVars>>

InputTrait(ty) ==
    CanTranslate /\ Translated("input", ty, input_trait(sig, ty))

OutputTrait(ty) ==
    CanTranslate /\ Translated("output", ty, output_trait(sig, ty))

NextSig ==
    \/ \E ty \in Types(Depth, declared) : InputTrait(ty)
    \/ \E ty \in Types(Depth, declared) : OutputTrait(ty)

\* the translator component at rest
IdleSig ==
    /\ declared = <<>>
    /\ sig = Signature_new(<<>>)
    /\ sigPre = sig
    /\ lastTy = Scalar("Int")
    /\ lastPos = "none"
    /\ lastRes = SigOk(sig, <<>>)
    /\ nCalls = 0

----------------------------------------------------------------------------
(* Constructor generator: codegen.rs 17-173.  A ClassInfo is a name, the   *)
(* class's generics and its constructors; a Constructor is its argument    *)
(* types and its descriptor.                                               *)

\* SpannedClassInfo::struct_name: the class name as one identifier
struct_name(ci) == JoinSegments(ci.name, ".")

\* SpannedClassInfo::generic_names
generic_names(ci) == Signature_new_idents(ci.generics)

\* SpannedClassInfo::this_type
this_type(ci) ==
    IF ci.generics = <<>>
    THEN <<struct_name(ci)>>
    ELSE <<struct_name(ci), "<">>
         \o CommaSeparated([i \in 1..Len(ci.generics) |->
                               <<generic_names(ci)[i]>>])
         \o <<">">>

\* SpannedClassInfo::jni_class_name
jni_class_name(ci) == to_jni_name(ci.name)

\* SpannedClassInfo::cached_class: the generated function
cached_class(ci) ==
    [item |-> "fn cached_class", body |-> <<jni_class_name(ci)>>]

RECURSIVE input_traits(_, _)
\* `args.iter().map(|ty| sig.input_trait(ty)).collect::<Result<_, _>>()?`
input_traits(sg, args) ==
    IF args = <<>> THEN SigOk(sg, <<>>)
    ELSE LET t == input_trait(sg, Head(args)) IN
         IF t.kind # "Ok" THEN t
         ELSE LET rest == input_traits(t.sig, Tail(args)) IN
              IF rest.kind # "Ok" THEN rest
              ELSE SigOk(rest.sig, <<t.ts>> \o rest.ts)

\* `let generics = self.generic_names();` in SpannedClassInfo::constructor:
\* the list spliced into `impl< #(#generics),* >`
constructor_generics(ci, sg) == generic_names(ci)

\* `(0..input_traits.len()).map(|i| Ident::new(&format!("a{i}"), ..))`
input_names(n) == [i \in 1..n |-> "a" \o ToString(i - 1)]

\* `#(#input_names : #input_traits,)*`
where_clauses(names, traits) ==
    [i \in 1..Len(traits) |-> <<names[i], ":">> \o traits[i]]

\* the quoted unit of SpannedClassInfo::constructor, its being what the
\* translation of the arguments returned (`?` returns its Err)
constructor_unit(ci, c, its) ==
    IF its.kind # "Ok" THEN [its EXCEPT !.ts = <<>>]
    ELSE SigOk(its.sig,
               <<[item |-> "constructor",
                  generics |-> constructor_generics(ci, its.sig),
                  ty |-> this_type(ci),
                  input_names |-> input_names(Len(its.ts)),
                  input_traits |-> its.ts,
                  where |-> where_clauses(input_names(Len(its.ts)), its.ts),
                  descriptor |-> c.descriptor]>>)

\* SpannedClassInfo::constructor: the generated unit, with the Signature
\* the translation of the arguments left behind
constructor(ci, c) ==
    constructor_unit(ci, c, input_traits(Signature_new(ci.generics), c.args))

RECURSIVE constructors_ok(_, _)
RECURSIVE flat_map_ok(_, _, _)

\* `.flat_map(|c| self.constructor(c).ok())`: r is kept iff it is Ok
flat_map_ok(r, ci, cs) ==
    (IF r.kind = "Ok" THEN r.ts ELSE <<>>) \o constructors_ok(ci, cs)

\* `constructors.iter().flat_map(|c| self.constructor(c).ok()).collect()`
constructors_ok(ci, cs) ==
    IF cs = <<>> THEN <<>>
    ELSE flat_map_ok(constructor(ci, Head(cs)), ci, Tail(cs))

\* SpannedClassInfo::into_tokens: the items of the generated token stream;
\* the local `constructors` is not spliced into the quoted output
into_tokens(ci) ==
    LET constructors == constructors_ok(ci, ci.constructors) IN
    <<[item |-> "struct", body |-> <<struct_name(ci)>>],
      [item |-> "impl JavaObject", body |-> <<struct_name(ci)>>],
      [item |-> "impl Upcast", body |-> <<struct_name(ci)>>],
      cached_class(ci)>>

\* the class infos handed to the generator
ArgTypes(decl) ==
    {Scalar("Int"),
     Ref(Class(ClassX, <<>>)),
     Ref(Extends(Class(ClassX, <<>>))),
     Ref(Wildcard),
     Ref(Class(ClassArrayList, <<Class(ClassArrayList, <<Wildcard>>)>>))}
    \cup {Ref(TypeParameter(decl[i])) : i \in 1..Len(decl)}

Constructors(decl) ==
    [args : SeqsUpTo(ArgTypes(decl), MaxArgs), descriptor : {"(..)V"}]

ClassInfos ==
    UNION {[name : {ClassArrayList},
            generics : {decl},
            constructors : SeqsUpTo(Constructors(decl), MaxConstructors)] :
           decl \in DeclaredChoices}

NoUnit == SigErr(Signature_new(<<>>))

InitGen ==
    /\ info \in ClassInfos
    /\ lastCtor = 0
    /\ ctorRes = NoUnit
    /\ output = <<>>

\* self.constructor(c) for the i-th constructor of the class
Constructor(i) ==
    /\ output = <<>>
    /\ lastCtor' = i
    /\ ctorRes' = constructor(info, info.constructors[i])
    /\ UNCHANGED <<info, output>>
    /\ UNCHANGED <<cacheVars, parseVars, sigVars>>

\* self.into_tokens()
IntoTokens ==
    /\ output = <<>>
    /\ output' = into_tokens(info)
    /\ UNCHANGED <<info, lastCtor, ctorRes>>
    /\ UNCHANGED <<cacheVars, parseVars, sigVars>>

NextGen ==
    \/ \E i \in 1..Len(info.constructors) : Constructor(i)
    \/ IntoTokens

\* the generator component at rest
IdleGen ==
    /\ info = [name |-> ClassX, generics |-> <<>>, constructors |-> <<>>]
    /\ lastCtor = 0
    /\ ctorRes = NoUnit
    /\ output = <<>>

\* the cache component at rest
IdleCache ==
    /\ pc = [t \in Threads |-> "idle"]
    /\ cell = <<>>
    /\ queue = "INCOMPLETE"
    /\ ret = [t \in Threads |-> NoRet]
    /\ lookups = 0
    /\ nextRef = 1
    /\ failures = 0
    /\ waited = [t \in Threads |-> FALSE]
    /\ ownLookup = [t \in Threads |-> FALSE]
    /\ calls = [t \in Threads |-> 0]

----------------------------------------------------------------------------
(* Specifications: one per component, the others at rest *)

Init == InitCache /\ IdleParse /\ IdleSig /\ IdleGen
Next == NextCache
Spec == Init /\ [][Next]_vars

InitP == IdleCache /\ InitParse /\ IdleSig /\ IdleGen
SpecParse == InitP /\ [][NextParse]_vars

InitS == IdleCache /\ IdleParse /\ InitSig /\ IdleGen
SpecSig == InitS /\ [][NextSig]_vars

InitG == IdleCache /\ IdleParse /\ IdleSig /\ InitGen
SpecGen == InitG /\ [][NextGen]_vars


----------------------------------------------------------------------------
(* Claims about the class cache *)

Returned(t) == pc[t] = "idle" /\ ret[t] # NoRet
ReturnedOk(t) == Returned(t) /\ ret[t][1] = "Ok"

\* C1: while no lookup has failed, the lookup is started at most once, it
\* has been started exactly once as soon as some caller has returned, and
\* every caller that has returned (concurrent first callers and later
\* calls alike) returned the one handle stored in the cell.
C1_OneLookupSharedHandle ==
    failures = 0 =>
        /\ lookups <= 1
        /\ \A t \in Threads :
              Returned(t) =>
                 /\ lookups = 1
                 /\ cell # <<>>
                 /\ ret[t] = Ok(cell[1])
        /\ \A t, u \in Threads :
              (Returned(t) /\ Returned(u)) => ret[t] = ret[u]

\* two callers raced on the empty cell: one ran the lookup, the other
\* blocked on it, and both have returned
C1_Witness ==
    /\ failures = 0
    /\ \E t, u \in Threads :
          /\ t # u
          /\ ownLookup[t] /\ ReturnedOk(t)
          /\ waited[u] /\ ReturnedOk(u)

\* C2: when the lookup run by a caller fails (find_class or
\* new_global_ref), the cell is empty before and after, the cell's state
\* goes back to INCOMPLETE and that caller returns the Err; the cell never
\* holds anything but a GlobalRef; a caller returns Err only for a lookup
\* it ran itself in that call (no cached failure is handed out); and a
\* caller that reaches the cell after a failure, while the cell is empty
\* and no lookup is running, starts a fresh lookup.
C2_FailureNotCached ==
    /\ [](/\ (cell = <<>> \/ cell[1][1] = "ref")
          /\ \A t \in Threads :
                (Returned(t) /\ ret[t][1] = "Err") => ownLookup[t])
    /\ [][\A t \in Threads :
            /\ (InLookup(t) /\ failures' # failures /\ pc'[t] # pc[t]) =>
                  /\ cell = <<>> /\ cell' = <<>>
                  /\ queue' = "INCOMPLETE"
                  /\ pc'[t] = "idle"
                  /\ ret'[t][1] = "Err"
            /\ (/\ pc[t] = "load" /\ pc'[t] # pc[t]
                /\ failures > 0 /\ cell = <<>> /\ queue # "RUNNING") =>
                  /\ pc'[t] = "find_class"
                  /\ lookups' = lookups + 1
         ]_vars

\* a lookup failed, a later call ran a second lookup, and that one filled
\* the cell
C2_Witness ==
    /\ failures >= 1
    /\ lookups >= 2
    /\ cell # <<>>
    /\ \E t \in Threads : Returned(t) /\ ret[t][1] = "Err"
    /\ \E t \in Threads : ReturnedOk(t) /\ ownLookup[t]

\* C3 as stated: a caller that blocked on another caller's in-flight
\* lookup never runs a lookup of its own in that call.
C3_WaiterNeverLooksUp ==
    \A t \in Threads : waited[t] => ~ownLookup[t]

\* C3 amended: at most one lookup is in flight at any time (a caller that
\* arrives during a lookup blocks instead of starting one, and the cell is
\* RUNNING exactly while a lookup is in flight); a caller that blocked and
\* returned without running a lookup returned the stored handle; a caller
\* that blocked runs a lookup of its own only after the lookup it waited
\* for has failed, and then returns the outcome of its own lookup.
C3_WaiterSharesSuccessRetriesFailure ==
    /\ Cardinality({t \in Threads : InLookup(t)}) <= 1
    /\ (queue = "RUNNING") <=> (\E t \in Threads : InLookup(t))
    /\ \A t \in Threads :
          /\ pc[t] = "wait" => waited[t]
          /\ (waited[t] /\ Returned(t) /\ ~ownLookup[t]) =>
                (cell # <<>> /\ ret[t] = Ok(cell[1]))
          /\ (waited[t] /\ ownLookup[t]) => failures >= 1

\* a caller blocked on a lookup that then failed, ran its own lookup and
\* returned its handle
C3_Witness ==
    \E t, u \in Threads :
        /\ t # u
        /\ Returned(t) /\ ret[t][1] = "Err"
        /\ waited[u] /\ ownLookup[u] /\ ReturnedOk(u)

----------------------------------------------------------------------------
(* Claims about the declaration parser *)

Units == {"JavaPackage", "JavaClass", "JavaPath"}

\* the very first token of a unit: keyword package, keyword class, or an
\* identifier
FirstTokenMatches(op, ts, i) ==
    /\ i <= Len(ts)
    /\ CASE op = "JavaPackage" -> ts[i] = Ident("package")
         [] op = "JavaClass" -> ts[i] = Ident("class")
         [] op = "JavaPath" -> ts[i][1] = "ident"

\* the grammar, stated on token positions: ts[a..b] is a dotted path
PathSpan(ts, a, b) ==
    /\ a <= b /\ b <= Len(ts)
    /\ (b - a) % 2 = 0
    /\ \A k \in a..b :
          IF (k - a) % 2 = 0 THEN ts[k][1] = "ident" ELSE ts[k] = Punct(".")

\* ts[a..a+4] is `class Name { * }`
ClassSpan(ts, a) ==
    /\ a + 4 <= Len(ts)
    /\ ts[a] = Ident("class")
    /\ ts[a + 1][1] = "ident"
    /\ ts[a + 2] = Punct("{")
    /\ ts[a + 3] = Punct("*")
    /\ ts[a + 4] = Punct("}")

\* ts[a..b] is `package path ;` followed by classes
PackageSpan(ts, a, b) ==
    /\ b <= Len(ts)
    /\ ts[a] = Ident("package")
    /\ \E semi \in (a + 2)..b :
          /\ PathSpan(ts, a + 1, semi - 1)
          /\ ts[semi] = Punct(";")
          /\ (b - semi) % 5 = 0
          /\ \A j \in 0..(((b - semi) \div 5) - 1) :
                ClassSpan(ts, semi + 1 + 5 * j)

UnitSpan(op, ts, a, b) ==
    CASE op = "JavaPackage" -> PackageSpan(ts, a, b)
      [] op = "JavaClass" -> b = a + 4 /\ ClassSpan(ts, a)
      [] op = "JavaPath" -> PathSpan(ts, a, b)

\* C4: a unit parser (JavaPackage, JavaClass, JavaPath) returns no-match
\* exactly when its very first token does not match, and then the cursor
\* is where it was before the call; when the first token matches, the
\* outcome is a match that consumed one whole unit, or a hard error past
\* the first token, never a no-match.
C4_CommitRule ==
    lastOp \in Units =>
        LET first == FirstTokenMatches(lastOp, toks, startPos) IN
        /\ result.kind = "nomatch" => (~first /\ cursor = startPos)
        /\ ~first => result.kind = "nomatch"
        /\ first =>
              \/ /\ result.kind = "match"
                 /\ UnitSpan(lastOp, toks, startPos, cursor - 1)
              \/ /\ result.kind = "error"
                 /\ cursor > startPos
                 /\ ~UnitSpan(lastOp, toks, startPos, cursor - 1)

\* JavaClass consumed `class Name { *` and failed on the missing `}`, as
\* the second unit run on this Parser
C4_Witness ==
    /\ lastOp = "JavaClass"
    /\ nOps = 2
    /\ result.kind = "error"
    /\ cursor = startPos + 4
    /\ result.err.message = "expected '}' after class methods"

\* C5: parsing `package a.b; class Foo { * }` yields exactly one package,
\* named `a.b`, containing exactly one class `Foo` whose member list is
\* absent.
C5_Scenario1 ==
    (toks = Scenario1 /\ lastOp = "DuchessDeclaration" /\ startPos = 1) =>
        /\ result.kind = "match"
        /\ Len(result.value.packages) = 1
        /\ result.value.packages[1].package_name.text = "a.b"
        /\ Len(result.value.packages[1].classes) = 1
        /\ result.value.packages[1].classes[1].class_name = "Foo"
        /\ result.value.packages[1].classes[1].members = <<>>

----------------------------------------------------------------------------
(* Claims about the Signature translator *)

RECURSIVE SumOver(_, _)
RECURSIVE Captures(_)
RECURSIVE Constraints(_)
RECURSIVE HasWildcard(_)

SumOver(f, n) == IF n = 0 THEN 0 ELSE f[n] + SumOver(f, n - 1)

\* the number of Extends, Super and Wildcard nodes of a type, not counting
\* what is below a Super
Captures(ty) ==
    CASE ty[1] = "Class" ->
            SumOver([i \in 1..Len(ty[3]) |-> Captures(ty[3][i])], Len(ty[3]))
      [] ty[1] = "Array" -> Captures(ty[2])
      [] ty[1] = "TypeParameter" -> 0
      [] ty[1] = "Extends" -> 1 + Captures(ty[2])
      [] ty[1] = "Super" -> 1
      [] ty[1] = "Wildcard" -> 1

\* the number of Extends nodes of a type, not counting what is below a
\* Super
Constraints(ty) ==
    CASE ty[1] = "Class" ->
            SumOver([i \in 1..Len(ty[3]) |-> Constraints(ty[3][i])],
                    Len(ty[3]))
      [] ty[1] = "Array" -> Constraints(ty[2])
      [] ty[1] = "TypeParameter" -> 0
      [] ty[1] = "Extends" -> 1 + Constraints(ty[2])
      [] ty[1] = "Super" -> 0
      [] ty[1] = "Wildcard" -> 0

\* an Extends, Super or Wildcard anywhere in the type
HasWildcard(ty) ==
    CASE ty[1] = "Class" -> \E i \in 1..Len(ty[3]) : HasWildcard(ty[3][i])
      [] ty[1] = "Array" -> HasWildcard(ty[2])
      [] ty[1] = "TypeParameter" -> FALSE
      [] ty[1] = "Extends" -> TRUE
      [] ty[1] = "Super" -> TRUE
      [] ty[1] = "Wildcard" -> TRUE

Distinct(seq) ==
    \A i, j \in 1..Len(seq) : i # j => seq[i] # seq[j]

IsPrefix(a, b) == Len(a) <= Len(b) /\ SubSeq(b, 1, Len(a)) = a

\* an Extends was translated as an input while capture was allowed
ExtendsAsInput ==
    /\ lastPos = "input"
    /\ lastTy[1] = "Ref"
    /\ lastTy[2][1] = "Extends"
    /\ sigPre.capture_generics

C8_OutputWildcardRejected ==
    (lastPos = "output" /\ lastTy[1] = "Ref" /\ HasWildcard(lastTy[2])) =>
        /\ lastRes.kind = "Err"
        /\ lastRes.ts = <<UnsupportedWildcard>>
        /\ sig.generics = sigPre.generics
        /\ sig.where_bounds = sigPre.where_bounds
        /\ sig.capture_generics = sigPre.capture_generics
        /\ sig.capture_generics

\* a class type with a wildcard among its generic arguments was rejected
\* as an output, on a Signature that had captured generics and bounds
C8_Witness ==
    /\ lastPos = "output"
    /\ lastTy[1] = "Ref"
    /\ lastTy[2][1] = "Class"
    /\ HasWildcard(lastTy[2])
    /\ sigPre.where_bounds # <<>>
    /\ lastRes.kind = "Err"

\* C9: the input type ArrayList<ArrayList<?>> returns
\* Err(UnsupportedWildcard).
C9_NestedWildcardRejected ==
    (/\ lastPos = "input"
     /\ lastTy = Ref(Class(ClassArrayList,
                           <<Class(ClassArrayList, <<Wildcard>>)>>))) =>
        lastRes.kind = "Err"

----------------------------------------------------------------------------
(* Claims about the constructor generator *)

RECURSIVE ArgCaptures(_)
ArgCaptures(args) ==
    IF args = <<>> THEN 0
    ELSE (IF Head(args)[1] = "Ref" THEN Captures(Head(args)[2]) ELSE 0)
         + ArgCaptures(Tail(args))

\* C6: the generics of a generated constructor unit are the class's
\* declared generics followed by the generics captured while translating
\* its arguments, in capture order.
C6_UnitGenerics ==
    (lastCtor > 0 /\ ctorRes.kind = "Ok") =>
        LET unit == ctorRes.ts[1]
            args == info.constructors[lastCtor].args
            n == Len(info.generics)
        IN  /\ unit.generics = ctorRes.sig.generics
            /\ SubSeq(unit.generics, 1, n) = generic_names(info)
            /\ Len(unit.generics) = n + ArgCaptures(args)

ConstructorUnits(out) == SelectSeq(out, LAMBDA it : it.item = "constructor")

\* C10: the output of into_tokens holds, in constructor order, the unit of
\* every constructor whose arguments translate, and nothing for the others.
C10_PartialSuccess ==
    output # <<>> =>
        ConstructorUnits(output) = constructors_ok(info, info.constructors)

====
